---- MODULE Spec2Model ----
(***************************************************************************)
(* ClientFlow ("Client Hub"): the REST handlers of the document-store      *)
(* backend (src/server.js) and of the Supabase backend                     *)
(* (src/unnamed/part_001), as state machines over the stored collections.  *)
(*                                                                         *)
(* Request bodies are stored verbatim, so a field holds whatever JSON      *)
(* value the request carried. A JavaScript value is modelled as a record   *)
(* [k, n]:                                                                 *)
(*   k = "undef"  the field is absent                                      *)
(*   k = "num"    the JSON number n                                        *)
(*   k = "str"    the string that is the decimal numeral of n ("1", "2")   *)
(*   k = "text"   a non-empty, non-numeric string (the n-th in            *)
(*                alphabetical order: a name, or an unparseable date)      *)
(*   k = "date"   the ISO date string of day n ("2024-01-0n")              *)
(*   k = "nan"    the number NaN (never in JSON; a result of Number())     *)
(*   k = "empty"  the empty string (a date field a form left blank)         *)
(***************************************************************************)
EXTENDS Integers, Sequences, FiniteSets

\* ------------------------------------------------------------------ bounds

\* The model handles at most this many POST requests in one run (every POST
\* advances an id counter, which is otherwise unbounded).
MaxPosts == 3

\* The instants of one day that the model tells apart: instant 0 of a day is
\* its midnight.
TicksPerDay == 2

\* The most projects and tasks together that the Dashboard is given, in the
\* specification of its counts and in the specification of its deadlines.
MaxUiItems == 6
MaxDatedItems == 2

\* ------------------------------------------------------- JavaScript values

Undef == [k |-> "undef", n |-> 0]
NaN == [k |-> "nan", n |-> 0]
Num(n) == [k |-> "num", n |-> n]
Str(n) == [k |-> "str", n |-> n]
Text(n) == [k |-> "text", n |-> n]
Date(n) == [k |-> "date", n |-> n]
EmptyString == [k |-> "empty", n |-> 0]

\* Number(v): a numeric string converts to its number; undefined and
\* non-numeric strings give NaN.
JsNumber(v) ==
  CASE v.k = "num" -> v
    [] v.k = "str" -> Num(v.n)
    [] OTHER -> NaN

\* String(v), for the values an id can hold.
JsString(v) ==
  CASE v.k = "num" -> Str(v.n)
    [] OTHER -> v

\* a === b
StrictEq(a, b) == a.k # "nan" /\ a = b

\* a == b: same types compare strictly; a number and a string compare after
\* Number(string); undefined equals only undefined (and null).
LooseEq(a, b) ==
  CASE a.k = "nan" \/ b.k = "nan" -> FALSE
    [] a.k = "undef" \/ b.k = "undef" -> a.k = b.k
    [] a.k = "num" /\ b.k # "num" -> StrictEq(a, JsNumber(b))
    [] b.k = "num" /\ a.k # "num" -> StrictEq(JsNumber(a), b)
    [] OTHER -> a = b

\* Number(x) || 0
NumberOrZero(v) ==
  LET x == JsNumber(v) IN IF x.k = "nan" \/ x.n = 0 THEN Num(0) ELSE x

\* ------------------------------------------------------- sequence helpers

\* Array.prototype.findIndex(e => e.id === id), 1-based; 0 is the code's -1.
FindIndex(s, id) ==
  IF \E i \in 1..Len(s) : StrictEq(s[i].id, id)
  THEN CHOOSE i \in 1..Len(s) :
         /\ StrictEq(s[i].id, id)
         /\ \A j \in 1..(i - 1) : ~StrictEq(s[j].id, id)
  ELSE 0

\* Array.prototype.some(e => e.id === id)
SomeId(s, id) == \E i \in 1..Len(s) : StrictEq(s[i].id, id)

\* Array.prototype.includes: SameValueZero, which is === except for NaN.
Includes(s, v) == \E i \in 1..Len(s) : s[i] = v

\* { ...a, ...b }: a field present in b replaces a's.
Spread(a, b) == [f \in DOMAIN a |-> IF b[f] # Undef THEN b[f] ELSE a[f]]

\* const { id: bodyId, ...rest } = req.body
StripId(body) == [body EXCEPT !.id = Undef]

\* ------------------------------------------------- Array.prototype.sort

\* The comparator's result as the engine reads it: NaN counts as 0.
CmpResult(x) == IF x.k = "nan" THEN 0 ELSE x.n

\* x - y on numbers: NaN when either side is NaN.
JsMinus(x, y) == IF x.k = "nan" \/ y.k = "nan" THEN NaN ELSE Num(x.n - y.n)

\* new Date(v) as a number: the day of an ISO date string; Invalid Date (NaN)
\* for a missing value or a string that is no date.
DateValue(v) ==
  CASE v.k = "date" -> Num(v.n)
    [] v.k = "num" -> Num(v.n)
    [] v.k = "undef" -> NaN
    [] v.k = "text" -> NaN

\* Node's sort of an array shorter than 32 elements: the leading run is
\* counted (and reversed when strictly descending), the rest is inserted by
\* binary search. ord[i][j] is the comparator applied to elements i and j of
\* the input; the result is the permutation of the input's indices.
RunLength(ord, n) ==
  IF n < 2 THEN n
  ELSE LET desc == ord[2][1] < 0
           Ok(r) == \A idx \in 3..r :
                      IF desc THEN ord[idx][idx - 1] < 0 ELSE ord[idx][idx - 1] >= 0
       IN CHOOSE r \in 2..n : Ok(r) /\ (r = n \/ ~Ok(r + 1))

Reverse(s) == [i \in 1..Len(s) |-> s[Len(s) + 1 - i]]

RECURSIVE BinarySearch(_, _, _, _, _)
\* left and right are 0-based, as in the engine; perm holds input indices.
BinarySearch(ord, perm, pivot, left, right) ==
  IF left >= right THEN left
  ELSE LET mid == left + ((right - left) \div 2) IN
       IF ord[pivot][perm[mid + 1]] < 0
       THEN BinarySearch(ord, perm, pivot, left, mid)
       ELSE BinarySearch(ord, perm, pivot, mid + 1, right)

RECURSIVE BinaryInsertionSort(_, _, _)
\* start is the 0-based position of the next element to insert.
BinaryInsertionSort(ord, perm, start) ==
  IF start >= Len(perm) THEN perm
  ELSE LET pivot == perm[start + 1]
           left == BinarySearch(ord, perm, pivot, 0, start)
           moved == SubSeq(perm, 1, left) \o <<pivot>> \o SubSeq(perm, left + 1, start)
                    \o SubSeq(perm, start + 2, Len(perm))
       IN BinaryInsertionSort(ord, moved, start + 1)

SortPermutation(ord, n) ==
  IF n < 2 THEN [i \in 1..n |-> i]
  ELSE LET run == RunLength(ord, n)
           desc == ord[2][1] < 0
           ident == [i \in 1..n |-> i]
           first == IF desc
                    THEN Reverse(SubSeq(ident, 1, run)) \o SubSeq(ident, run + 1, n)
                    ELSE ident
       IN BinaryInsertionSort(ord, first, run)

\* [...s].sort((a, b) => new Date(a[field]) - new Date(b[field])), given the
\* sequence of the elements' field values.
SortByDate(s, dates) ==
  LET n == Len(s)
      ord == [i \in 1..n |-> [j \in 1..n |->
                CmpResult(JsMinus(DateValue(dates[i]), DateValue(dates[j])))]]
      perm == SortPermutation(ord, n)
  IN [i \in 1..n |-> s[perm[i]]]

\* a.localeCompare(b) for a string a: Text(m) precedes Text(n) when m < n. An
\* undefined b is compared as the word "undefined", which follows every name
\* of the model.
LocaleCompare(a, b) == IF b.k = "undef" THEN -1 ELSE a.n - b.n

IsString(v) == v.k \in {"str", "text", "date"}

\* Whether the sort below throws a TypeError: the engine passes every element
\* but the first as the comparator's a, and a.name.localeCompare is a call on
\* undefined when a has no name.
LocaleCompareThrows(s) == \E i \in 2..Len(s) : ~IsString(s[i].name)

\* [...s].sort((a, b) => a.name.localeCompare(b.name)), when it returns.
SortByName(s) ==
  LET n == Len(s)
      ord == [i \in 1..n |-> [j \in 1..n |->
                IF IsString(s[i].name) THEN LocaleCompare(s[i].name, s[j].name) ELSE 0]]
      perm == SortPermutation(ord, n)
  IN [i \in 1..n |-> s[perm[i]]]

\* ------------------------------------------------ document-store backend

VARIABLES
  seeded,    \* whether the "main_data" document exists in the collection
  clients,   \* main_data.clients
  projects,  \* main_data.projects
  tasks,     \* main_data.tasks
  nextId,    \* main_data.nextId
  req,       \* the last request handled: method, resource, URL id, body
  res,       \* its response: status and JSON body
  inflight,  \* per connection: the request being handled and what it has read
  ui,        \* App's useState collections: clients, projects, tasks
  dash,      \* Dashboard's memoised views and the instant they were computed
  lists      \* the memoised status groups of ProjectList and of TaskList

docVars == <<seeded, clients, projects, tasks, nextId>>
appVars == <<ui, dash, lists>>

defaultData ==
  [clients |-> <<>>, projects |-> <<>>, tasks |-> <<>>,
   nextId |-> [client |-> 1, project |-> 1, task |-> 1]]

\* The number of POST requests handled so far, read off the id counters.
Posts(n) == (n.client - 1) + (n.project - 1) + (n.task - 1)

\* handleRequest's read: the stored document, seeded with defaultData when
\* the collection holds none.
AppData ==
  IF seeded
  THEN [clients |-> clients, projects |-> projects, tasks |-> tasks, nextId |-> nextId]
  ELSE defaultData

NoBody == <<>>
\* thrown is the error the store raised while the request was handled.
NoError == [at |-> "nowhere", message |-> ""]
Request(op, resource, id, body) ==
  [op |-> op, resource |-> resource, id |-> id, body |-> body, thrown |-> NoError]
\* sent counts the res.json / res.send calls made for the request.
Response(status, body) == [status |-> status, body |-> body, sent |-> 1]

\* send404
Send404 == Response(404, NoBody)

\* An entity with none of its fields present.
EmptyClient == [id |-> Undef, name |-> Undef]
EmptyProject ==
  [id |-> Undef, clientId |-> Undef, deadline |-> Undef, budget |-> Undef,
   progress |-> Undef]
EmptyTask == [id |-> Undef, projectId |-> Undef, dueDate |-> Undef]

\* A connection on which no request is being handled.
Procs == {"a", "b"}
IdleProc ==
  [pc |-> "idle", req |-> Request("NONE", "none", Undef, NoBody),
   appData |-> defaultData]

\* App's state before the first fetch, and Dashboard before its first render.
NoEntities == [clients |-> <<>>, projects |-> <<>>, tasks |-> <<>>]
NoCounts == [status \in {} |-> 0]
\* The list views before they are shown: every group empty.
Statuses == {"To Do", "In Progress", "Done"}
NoGroups == [shown |-> FALSE, threw |-> FALSE, grouped |-> [status \in Statuses |-> <<>>]]
NotListed == [projectsByStatus |-> NoGroups, tasksByStatus |-> NoGroups]
NotRendered ==
  [today |-> Undef, projectStats |-> NoCounts, taskStats |-> NoCounts,
   upcomingDeadlines |-> <<>>, recentlyCompletedTasks |-> <<>>]

\* == Clients API ==

\* handleRequest's catch block.
InternalServerError(message) ==
  Response(500, <<[error |-> "An internal server error occurred.",
                   details |-> message]>>)

GetClients ==
  /\ res' = IF LocaleCompareThrows(AppData.clients)
            THEN InternalServerError("TypeError")
            ELSE Response(200, SortByName(AppData.clients))
  /\ req' = Request("GET", "clients", Undef, NoBody)
  /\ seeded' = TRUE
  /\ UNCHANGED <<inflight, appVars>>
  /\ UNCHANGED <<clients, projects, tasks, nextId>>

\* { id: appData.nextId.client++, ...req.body }
NewClient(counter, body) == Spread([EmptyClient EXCEPT !.id = Num(counter)], body)

\* Mutant of PostClient: the id is one more than the number of stored clients,
\* and the counter follows it.
PostClientCountingStored(body) ==
  LET appData == AppData
      newClient == NewClient(Len(appData.clients) + 1, body)
  IN /\ Posts(appData.nextId) < MaxPosts
     /\ clients' = Append(appData.clients, newClient)
     /\ nextId' = [appData.nextId EXCEPT !.client = Len(appData.clients) + 2]
     /\ res' = Response(201, <<newClient>>)
     /\ req' = Request("POST", "clients", Undef, <<body>>)
     /\ seeded' = TRUE
     /\ UNCHANGED <<inflight, appVars>>
     /\ UNCHANGED <<projects, tasks>>

PostClient(body) ==
  LET appData == AppData
      newClient == NewClient(appData.nextId.client, body)
  IN /\ Posts(appData.nextId) < MaxPosts
     /\ clients' = Append(appData.clients, newClient)
     /\ nextId' = [appData.nextId EXCEPT !.client = @ + 1]
     /\ res' = Response(201, <<newClient>>)
     /\ req' = Request("POST", "clients", Undef, <<body>>)
     /\ seeded' = TRUE
     /\ UNCHANGED <<inflight, appVars>>
     /\ UNCHANGED <<projects, tasks>>

\* Mutant of MergedClient: the body is spread without its id taken out.
MergedClientWithBodyId(old, body) == Spread(old, body)

\* { ...appData.clients[clientIndex], ...clientData }
MergedClient(old, body) == Spread(old, StripId(body))

PutClient(urlId, body) ==
  LET appData == AppData
      id == JsNumber(urlId)
      clientIndex == FindIndex(appData.clients, id)
  IN /\ IF clientIndex # 0
        THEN /\ clients' = [appData.clients EXCEPT
                              ![clientIndex] = MergedClient(@, body)]
             /\ res' = Response(200, <<clients'[clientIndex]>>)
        ELSE /\ clients' = appData.clients
             /\ res' = Send404
     /\ req' = Request("PUT", "clients", urlId, <<body>>)
     /\ seeded' = TRUE
     /\ UNCHANGED <<inflight, appVars>>
     /\ UNCHANGED <<projects, tasks, nextId>>

\* appData.projects.filter(p => p.clientId == id).map(p => String(p.id))
ProjectIdsToDelete(ps, id) ==
  LET Owned(p) == LooseEq(p.clientId, id)
      owned == SelectSeq(ps, Owned)
  IN [i \in 1..Len(owned) |-> JsString(owned[i].id)]

\* appData.tasks.filter(t => !projectIdsToDelete.includes(t.projectId))
TasksAfterClientDelete(ts, projectIdsToDelete) ==
  LET Keep(t) == ~Includes(projectIdsToDelete, t.projectId)
  IN SelectSeq(ts, Keep)

\* appData.projects.filter(p => p.clientId != id)
ProjectsAfterClientDelete(ps, id) ==
  LET Keep(p) == ~LooseEq(p.clientId, id) IN SelectSeq(ps, Keep)

\* s.filter(e => e.id !== id)
WithoutId(s, id) ==
  LET Keep(e) == ~StrictEq(e.id, id) IN SelectSeq(s, Keep)

DeleteClient(urlId) ==
  LET appData == AppData
      id == JsNumber(urlId)
  IN /\ IF ~SomeId(appData.clients, id)
        THEN /\ res' = Send404
             /\ UNCHANGED <<clients, projects, tasks>>
        ELSE /\ tasks' = TasksAfterClientDelete(appData.tasks,
                           ProjectIdsToDelete(appData.projects, id))
             /\ projects' = ProjectsAfterClientDelete(appData.projects, id)
             /\ clients' = WithoutId(appData.clients, id)
             /\ res' = Response(204, NoBody)
     /\ req' = Request("DELETE", "clients", urlId, NoBody)
     /\ seeded' = TRUE
     /\ UNCHANGED <<inflight, appVars>>
     /\ UNCHANGED nextId

\* == Projects API ==

\* The field values of a sequence of entities.
FieldOf(s, f) == [i \in 1..Len(s) |-> s[i][f]]

GetProjects ==
  /\ res' = Response(200, SortByDate(AppData.projects, FieldOf(AppData.projects, "deadline")))
  /\ req' = Request("GET", "projects", Undef, NoBody)
  /\ seeded' = TRUE
  /\ UNCHANGED <<inflight, appVars>>
  /\ UNCHANGED <<clients, projects, tasks, nextId>>

\* { id: appData.nextId.project++, ...req.body,
\*   budget: Number(req.body.budget) || 0, progress: Number(req.body.progress) || 0 }
NewProject(counter, body) ==
  [Spread([EmptyProject EXCEPT !.id = Num(counter)], body) EXCEPT
     !.budget = NumberOrZero(body.budget),
     !.progress = NumberOrZero(body.progress)]

PostProject(body) ==
  LET appData == AppData
      newProject == NewProject(appData.nextId.project, body)
  IN /\ Posts(appData.nextId) < MaxPosts
     /\ projects' = Append(appData.projects, newProject)
     /\ nextId' = [appData.nextId EXCEPT !.project = @ + 1]
     /\ res' = Response(201, <<newProject>>)
     /\ req' = Request("POST", "projects", Undef, <<body>>)
     /\ seeded' = TRUE
     /\ UNCHANGED <<inflight, appVars>>
     /\ UNCHANGED <<clients, tasks>>

\* { ...appData.projects[projectIndex], ...projectData,
\*   budget: Number(projectData.budget) || 0,
\*   progress: Number(projectData.progress) || 0 }
MergedProject(old, body) ==
  LET projectData == StripId(body) IN
  [Spread(old, projectData) EXCEPT
     !.budget = NumberOrZero(projectData.budget),
     !.progress = NumberOrZero(projectData.progress)]

\* Mutant of PutProject: an unknown id creates the project (an upsert).
PutProjectUpsert(urlId, body) ==
  LET appData == AppData
      id == JsNumber(urlId)
      projectIndex == FindIndex(appData.projects, id)
  IN /\ IF projectIndex # 0
        THEN /\ projects' = [appData.projects EXCEPT
                               ![projectIndex] = MergedProject(@, body)]
             /\ res' = Response(200, <<projects'[projectIndex]>>)
        ELSE /\ projects' = Append(appData.projects,
                                   [MergedProject(EmptyProject, body) EXCEPT !.id = id])
             /\ res' = Response(200, <<projects'[Len(projects')]>>)
     /\ req' = Request("PUT", "projects", urlId, <<body>>)
     /\ seeded' = TRUE
     /\ UNCHANGED <<inflight, appVars>>
     /\ UNCHANGED <<clients, tasks, nextId>>

PutProject(urlId, body) ==
  LET appData == AppData
      id == JsNumber(urlId)
      projectIndex == FindIndex(appData.projects, id)
  IN /\ IF projectIndex # 0
        THEN /\ projects' = [appData.projects EXCEPT
                               ![projectIndex] = MergedProject(@, body)]
             /\ res' = Response(200, <<projects'[projectIndex]>>)
        ELSE /\ projects' = appData.projects
             /\ res' = Send404
     /\ req' = Request("PUT", "projects", urlId, <<body>>)
     /\ seeded' = TRUE
     /\ UNCHANGED <<inflight, appVars>>
     /\ UNCHANGED <<clients, tasks, nextId>>

\* appData.tasks.filter(t => t.projectId != id)
TasksAfterProjectDelete(ts, id) ==
  LET Keep(t) == ~LooseEq(t.projectId, id) IN SelectSeq(ts, Keep)

DeleteProject(urlId) ==
  LET appData == AppData
      id == JsNumber(urlId)
  IN /\ IF ~SomeId(appData.projects, id)
        THEN /\ res' = Send404
             /\ UNCHANGED <<projects, tasks>>
        ELSE /\ tasks' = TasksAfterProjectDelete(appData.tasks, id)
             /\ projects' = WithoutId(appData.projects, id)
             /\ res' = Response(204, NoBody)
     /\ req' = Request("DELETE", "projects", urlId, NoBody)
     /\ seeded' = TRUE
     /\ UNCHANGED <<inflight, appVars>>
     /\ UNCHANGED <<clients, nextId>>

\* == Tasks API ==

GetTasks ==
  /\ res' = Response(200, SortByDate(AppData.tasks, FieldOf(AppData.tasks, "dueDate")))
  /\ req' = Request("GET", "tasks", Undef, NoBody)
  /\ seeded' = TRUE
  /\ UNCHANGED <<inflight, appVars>>
  /\ UNCHANGED <<clients, projects, tasks, nextId>>

\* { id: appData.nextId.task++, ...req.body }
NewTask(counter, body) == Spread([EmptyTask EXCEPT !.id = Num(counter)], body)

PostTask(body) ==
  LET appData == AppData
      newTask == NewTask(appData.nextId.task, body)
  IN /\ Posts(appData.nextId) < MaxPosts
     /\ tasks' = Append(appData.tasks, newTask)
     /\ nextId' = [appData.nextId EXCEPT !.task = @ + 1]
     /\ res' = Response(201, <<newTask>>)
     /\ req' = Request("POST", "tasks", Undef, <<body>>)
     /\ seeded' = TRUE
     /\ UNCHANGED <<inflight, appVars>>
     /\ UNCHANGED <<clients, projects>>

\* { ...appData.tasks[taskIndex], ...taskData }
MergedTask(old, body) == Spread(old, StripId(body))

PutTask(urlId, body) ==
  LET appData == AppData
      id == JsNumber(urlId)
      taskIndex == FindIndex(appData.tasks, id)
  IN /\ IF taskIndex # 0
        THEN /\ tasks' = [appData.tasks EXCEPT ![taskIndex] = MergedTask(@, body)]
             /\ res' = Response(200, <<tasks'[taskIndex]>>)
        ELSE /\ tasks' = appData.tasks
             /\ res' = Send404
     /\ req' = Request("PUT", "tasks", urlId, <<body>>)
     /\ seeded' = TRUE
     /\ UNCHANGED <<inflight, appVars>>
     /\ UNCHANGED <<clients, projects, nextId>>

\* Mutant of DeleteTask: the filter is applied and 204 answered without the
\* existence check.
DeleteTaskUnchecked(urlId) ==
  LET appData == AppData
      id == JsNumber(urlId)
  IN /\ tasks' = WithoutId(appData.tasks, id)
     /\ res' = Response(204, NoBody)
     /\ req' = Request("DELETE", "tasks", urlId, NoBody)
     /\ seeded' = TRUE
     /\ UNCHANGED <<inflight, appVars>>
     /\ UNCHANGED <<clients, projects, nextId>>

DeleteTask(urlId) ==
  LET appData == AppData
      id == JsNumber(urlId)
  IN /\ IF ~SomeId(appData.tasks, id)
        THEN /\ res' = Send404
             /\ UNCHANGED tasks
        ELSE /\ tasks' = WithoutId(appData.tasks, id)
             /\ res' = Response(204, NoBody)
     /\ req' = Request("DELETE", "tasks", urlId, NoBody)
     /\ seeded' = TRUE
     /\ UNCHANGED <<inflight, appVars>>
     /\ UNCHANGED <<clients, projects, nextId>>

\* ------------------------------------------------------ Supabase backend

\* The same REST surface over Supabase tables. The tables are held in
\* clients, projects and tasks, and the tables' id sequences in nextId; there
\* is no main_data document, so seeded does not change. The database casts a
\* foreign key to the column's integer type, rejects a row whose parent is
\* missing, and deletes dependent rows with their parent (the schema's
\* ON DELETE CASCADE the handlers rely on). dbError is the outcome of the
\* call: any call to the service may fail.

\* supabase.from(table).insert(data).select().single(), with the body's id
\* dropped: the row as the database stores it.
SbRow(empty, counter, data, fk) ==
  LET row == Spread([empty EXCEPT !.id = Num(counter)], StripId(data))
  IN IF fk = "" THEN row ELSE [row EXCEPT ![fk] = JsNumber(@)]

\* The foreign-key constraint of an insert.
SbParentExists(parents, fkValue) == SomeId(parents, JsNumber(fkValue))

SbPostClient(body, dbError) ==
  /\ Posts(nextId) < MaxPosts
  /\ IF dbError
     THEN /\ res' = Response(500, NoBody)
          /\ UNCHANGED <<clients, nextId>>
     ELSE LET data == SbRow(EmptyClient, nextId.client, body, "")
          IN /\ clients' = Append(clients, data)
             /\ nextId' = [nextId EXCEPT !.client = @ + 1]
             /\ res' = Response(201, <<data>>)
  /\ req' = Request("POST", "clients", Undef, <<body>>)
  /\ UNCHANGED <<inflight, appVars, seeded, projects, tasks>>

SbPostProject(body, dbError) ==
  /\ Posts(nextId) < MaxPosts
  /\ IF dbError \/ ~SbParentExists(clients, body.clientId)
     THEN /\ res' = Response(500, NoBody)
          /\ UNCHANGED <<projects, nextId>>
     ELSE LET data == SbRow(EmptyProject, nextId.project, body, "clientId")
          IN /\ projects' = Append(projects, data)
             /\ nextId' = [nextId EXCEPT !.project = @ + 1]
             /\ res' = Response(201, <<data>>)
  /\ req' = Request("POST", "projects", Undef, <<body>>)
  /\ UNCHANGED <<inflight, appVars, seeded, clients, tasks>>

SbPostTask(body, dbError) ==
  /\ Posts(nextId) < MaxPosts
  /\ IF dbError \/ ~SbParentExists(projects, body.projectId)
     THEN /\ res' = Response(500, NoBody)
          /\ UNCHANGED <<tasks, nextId>>
     ELSE LET data == SbRow(EmptyTask, nextId.task, body, "projectId")
          IN /\ tasks' = Append(tasks, data)
             /\ nextId' = [nextId EXCEPT !.task = @ + 1]
             /\ res' = Response(201, <<data>>)
  /\ req' = Request("POST", "tasks", Undef, <<body>>)
  /\ UNCHANGED <<inflight, appVars, seeded, clients, projects>>

\* The rows of a child table left by ON DELETE CASCADE once the parent table
\* holds only the rows parents.
SbCascade(children, fk, parents) ==
  LET Keep(c) == SomeId(parents, c[fk]) IN SelectSeq(children, Keep)

\* The status the delete handlers answer with: 500 when the call returned an
\* error, 204 otherwise (the handlers do not look at the rows deleted).
SbDeleteStatus(dbError) == IF dbError THEN 500 ELSE 204

SbDeleteClient(urlId, dbError) ==
  /\ IF dbError
     THEN UNCHANGED <<clients, projects, tasks>>
     ELSE /\ clients' = WithoutId(clients, JsNumber(urlId))
          /\ projects' = SbCascade(projects, "clientId", clients')
          /\ tasks' = SbCascade(tasks, "projectId", projects')
  /\ res' = Response(SbDeleteStatus(dbError), NoBody)
  /\ req' = Request("DELETE", "clients", urlId, NoBody)
  /\ UNCHANGED <<inflight, appVars, seeded, nextId>>

SbDeleteProject(urlId, dbError) ==
  /\ IF dbError
     THEN UNCHANGED <<projects, tasks>>
     ELSE /\ projects' = WithoutId(projects, JsNumber(urlId))
          /\ tasks' = SbCascade(tasks, "projectId", projects')
  /\ res' = Response(SbDeleteStatus(dbError), NoBody)
  /\ req' = Request("DELETE", "projects", urlId, NoBody)
  /\ UNCHANGED <<inflight, appVars, seeded, clients, nextId>>

SbDeleteTask(urlId, dbError) ==
  /\ IF dbError
     THEN UNCHANGED tasks
     ELSE tasks' = WithoutId(tasks, JsNumber(urlId))
  /\ res' = Response(SbDeleteStatus(dbError), NoBody)
  /\ req' = Request("DELETE", "tasks", urlId, NoBody)
  /\ UNCHANGED <<inflight, appVars, seeded, clients, projects, nextId>>

\* ------------------------------------------------------- request inputs

\* req.params.id: the numerals "1" and "2".
UrlIds == {Str(1), Str(2)}

\* Request bodies of the cascade specification: an id field a caller may put
\* in the body, and foreign keys as the forms send them (a number from the
\* default selection, a string from a changed select).
BodyIds == {Undef, Num(1)}
Names == {Text(1), Text(2)}
ForeignKeys == {Num(1), Str(1)}

ClientBodies == [id : BodyIds, name : Names]
ProjectBodies ==
  [id : BodyIds, clientId : ForeignKeys, deadline : {Undef}, budget : {Undef},
   progress : {Undef}]
TaskBodies == [id : BodyIds, projectId : ForeignKeys \cup {Num(2)}, dueDate : {Undef}]

\* Request bodies of the field specification: projects and tasks with dates,
\* budget and progress, each of which a body may omit.
Dates == {Undef, Date(1), Date(2)}
FieldProjectBodies ==
  [id : {Undef}, clientId : {Num(1)}, deadline : Dates, budget : {Undef, Num(5)},
   progress : {Undef, Num(50)}]
FieldTaskBodies == [id : {Undef}, projectId : {Num(1)}, dueDate : Dates]

vars ==
  <<seeded, clients, projects, tasks, nextId, req, res, inflight, ui, dash,
    lists>>

Init ==
  /\ seeded = FALSE
  /\ clients = defaultData.clients
  /\ projects = defaultData.projects
  /\ tasks = defaultData.tasks
  /\ nextId = defaultData.nextId
  /\ req = Request("NONE", "none", Undef, NoBody)
  /\ res = Response(0, NoBody)
  /\ inflight = [p \in Procs |-> IdleProc]
  /\ ui = NoEntities
  /\ dash = NotRendered
  /\ lists = NotListed

Next ==
  \/ GetClients
  \/ \E body \in ClientBodies : PostClient(body)
  \/ \E urlId \in UrlIds, body \in ClientBodies : PutClient(urlId, body)
  \/ \E urlId \in UrlIds : DeleteClient(urlId)
  \/ GetProjects
  \/ \E body \in ProjectBodies : PostProject(body)
  \/ \E urlId \in UrlIds, body \in ProjectBodies : PutProject(urlId, body)
  \/ \E urlId \in UrlIds : DeleteProject(urlId)
  \/ GetTasks
  \/ \E body \in TaskBodies : PostTask(body)
  \/ \E urlId \in UrlIds, body \in TaskBodies : PutTask(urlId, body)
  \/ \E urlId \in UrlIds : DeleteTask(urlId)

Spec == Init /\ [][Next]_vars

\* The project and task handlers alone, with bodies that carry dates, budget
\* and progress.
NextFields ==
  \/ GetProjects
  \/ \E body \in FieldProjectBodies : PostProject(body)
  \/ \E urlId \in UrlIds, body \in FieldProjectBodies : PutProject(urlId, body)
  \/ GetTasks
  \/ \E body \in FieldTaskBodies : PostTask(body)
  \/ \E urlId \in UrlIds, body \in FieldTaskBodies : PutTask(urlId, body)

SpecFields == Init /\ [][NextFields]_vars

\* The Supabase backend's create and delete handlers.
NextSupabase ==
  \/ \E body \in ClientBodies, dbError \in BOOLEAN : SbPostClient(body, dbError)
  \/ \E body \in ProjectBodies, dbError \in BOOLEAN : SbPostProject(body, dbError)
  \/ \E body \in TaskBodies, dbError \in BOOLEAN : SbPostTask(body, dbError)
  \/ \E urlId \in UrlIds, dbError \in BOOLEAN : SbDeleteClient(urlId, dbError)
  \/ \E urlId \in UrlIds, dbError \in BOOLEAN : SbDeleteProject(urlId, dbError)
  \/ \E urlId \in UrlIds, dbError \in BOOLEAN : SbDeleteTask(urlId, dbError)

SpecSupabase == Init /\ [][NextSupabase]_vars

\* The client handlers of the document store, for bodies that may lack the
\* name (the server stores whatever JSON object it is sent).
OptionalNameBodies == [id : {Undef}, name : Names \cup {Undef}]

NextClients ==
  \/ GetClients
  \/ \E body \in OptionalNameBodies : PostClient(body)
  \/ \E urlId \in UrlIds, body \in OptionalNameBodies : PutClient(urlId, body)
  \/ \E urlId \in UrlIds : DeleteClient(urlId)

SpecClients == Init /\ [][NextClients]_vars

\* Every handler, with POST bodies that carry no id field.
WithoutBodyId(bodies) == {body \in bodies : body.id = Undef}

NextNoBodyId ==
  \/ GetClients
  \/ \E body \in WithoutBodyId(ClientBodies) : PostClient(body)
  \/ \E urlId \in UrlIds, body \in ClientBodies : PutClient(urlId, body)
  \/ \E urlId \in UrlIds : DeleteClient(urlId)
  \/ GetProjects
  \/ \E body \in WithoutBodyId(ProjectBodies) : PostProject(body)
  \/ \E urlId \in UrlIds, body \in ProjectBodies : PutProject(urlId, body)
  \/ \E urlId \in UrlIds : DeleteProject(urlId)
  \/ GetTasks
  \/ \E body \in WithoutBodyId(TaskBodies) : PostTask(body)
  \/ \E urlId \in UrlIds, body \in TaskBodies : PutTask(urlId, body)
  \/ \E urlId \in UrlIds : DeleteTask(urlId)

SpecNoBodyId == Init /\ [][NextNoBodyId]_vars

\* ------------------------------------------------------- store failures

\* Whether the handler of the request reaches its updateOne: POST always,
\* PUT and DELETE when the id is found, GET never.
ReachesWrite(op, resource, urlId, appData) ==
  LET stored == CASE resource = "clients" -> appData.clients
                  [] resource = "projects" -> appData.projects
                  [] resource = "tasks" -> appData.tasks
      id == JsNumber(urlId)
  IN CASE op = "POST" -> TRUE
       [] op = "PUT" -> FindIndex(stored, id) # 0
       [] op = "DELETE" -> SomeId(stored, id)
       [] OTHER -> FALSE

\* A handler that answers before it awaits its write.
HandlerStatementsRespondFirst(reachesWrite) ==
  IF reachesWrite THEN <<"respond", "updateOne">> ELSE <<"respond">>

\* The store and response calls of a handler, in the order of its source:
\* every handler that writes awaits updateOne before it answers.
HandlerStatements(reachesWrite) ==
  IF reachesWrite THEN <<"updateOne", "respond">> ELSE <<"respond">>

\* The store calls of handleRequest and of the handler, in order, when the
\* collection holds no document (seed) and when it does.
StoreCalls(seed, reachesWrite) ==
  (IF seed THEN <<"findOne", "insertOne", "findOneSeeded">> ELSE <<"findOne">>)
    \o HandlerStatements(reachesWrite)

\* The number of responses already sent when the statement at this position
\* throws.
RespondedBefore(calls, position) ==
  Cardinality({i \in 1..(position - 1) : calls[i] = "respond"})

ErrorMessages == {"connection closed", "not primary"}
Ops == {"GET", "POST", "PUT", "DELETE"}
Resources == {"clients", "projects", "tasks"}
PlainBody(resource) ==
  CASE resource = "clients" -> [id |-> Undef, name |-> Text(1)]
    [] resource = "projects" -> [EmptyProject EXCEPT !.clientId = Num(1)]
    [] resource = "tasks" -> [EmptyTask EXCEPT !.projectId = Num(1)]

\* A request during which a store call throws: the calls before it have
\* taken effect, the throwing call has none, and handleRequest's catch
\* answers 500 with the error's message.
StoreThrows(op, resource, urlId, position, message) ==
  LET appData == AppData
      calls == StoreCalls(~seeded, ReachesWrite(op, resource, urlId, appData))
      id == IF op \in {"PUT", "DELETE"} THEN urlId ELSE Undef
      body == IF op \in {"POST", "PUT"} THEN <<PlainBody(resource)>> ELSE NoBody
  IN /\ position \in 1..Len(calls)
     /\ calls[position] # "respond"
     /\ req' = [Request(op, resource, id, body) EXCEPT
                  !.thrown = [at |-> calls[position], message |-> message]]
     /\ res' = [InternalServerError(message) EXCEPT
                  !.sent = RespondedBefore(calls, position) + 1]
     /\ seeded' = (seeded \/ \E i \in 1..(position - 1) : calls[i] = "insertOne")
     /\ UNCHANGED <<clients, projects, tasks, nextId>>
     /\ UNCHANGED <<inflight, appVars>>

NextFailures ==
  \/ PostClient(PlainBody("clients"))
  \/ PostProject(PlainBody("projects"))
  \/ PostTask(PlainBody("tasks"))
  \/ \E urlId \in UrlIds : DeleteClient(urlId)
  \/ \E op \in Ops, resource \in Resources, urlId \in UrlIds,
        position \in 1..Len(StoreCalls(TRUE, TRUE)), message \in ErrorMessages :
       StoreThrows(op, resource, urlId, position, message)

SpecFailures == Init /\ [][NextFailures]_vars

\* ------------------------------------------------- interleaved requests

\* Requests are handled on two connections at once. A request takes effect
\* in steps, each one call on the store: handleRequest's findOne (followed on
\* an empty collection by insertOne and a second findOne), then the handler's
\* updateOne, after which it answers. Between its findOne and its updateOne a
\* handler works on the document it read.

NoWrite == [field \in {} |-> <<>>]

\* $set of DELETE /api/clients/:id: tasks, projects and clients in one update.
ClientDeleteSet(appData, id) ==
  [tasks |-> TasksAfterClientDelete(appData.tasks,
               ProjectIdsToDelete(appData.projects, id)),
   projects |-> ProjectsAfterClientDelete(appData.projects, id),
   clients |-> WithoutId(appData.clients, id)]

\* What a handler does with the document it was given: the fields its
\* updateOne sets (none when it does not write) and its response.
Handled(request, appData) ==
  LET id == JsNumber(request.id)
      body == request.body[1]
      clientIndex == FindIndex(appData.clients, id)
      projectIndex == FindIndex(appData.projects, id)
      taskIndex == FindIndex(appData.tasks, id)
      newClient == NewClient(appData.nextId.client, body)
      newProject == NewProject(appData.nextId.project, body)
      newTask == NewTask(appData.nextId.task, body)
      merged == [appData.clients EXCEPT ![clientIndex] = MergedClient(@, body)]
      mergedProjects == [appData.projects EXCEPT ![projectIndex] = MergedProject(@, body)]
      mergedTasks == [appData.tasks EXCEPT ![taskIndex] = MergedTask(@, body)]
  IN CASE request.op = "GET" /\ request.resource = "clients" ->
            [set |-> NoWrite,
             res |-> IF LocaleCompareThrows(appData.clients)
                     THEN InternalServerError("TypeError")
                     ELSE Response(200, SortByName(appData.clients))]
       [] request.op = "GET" /\ request.resource = "projects" ->
            [set |-> NoWrite,
             res |-> Response(200, SortByDate(appData.projects,
                                              FieldOf(appData.projects, "deadline")))]
       [] request.op = "GET" /\ request.resource = "tasks" ->
            [set |-> NoWrite,
             res |-> Response(200, SortByDate(appData.tasks,
                                              FieldOf(appData.tasks, "dueDate")))]
       [] request.op = "POST" /\ request.resource = "clients" ->
            [set |-> [clients |-> Append(appData.clients, newClient),
                      nextId |-> [appData.nextId EXCEPT !.client = @ + 1]],
             res |-> Response(201, <<newClient>>)]
       [] request.op = "POST" /\ request.resource = "projects" ->
            [set |-> [projects |-> Append(appData.projects, newProject),
                      nextId |-> [appData.nextId EXCEPT !.project = @ + 1]],
             res |-> Response(201, <<newProject>>)]
       [] request.op = "POST" /\ request.resource = "tasks" ->
            [set |-> [tasks |-> Append(appData.tasks, newTask),
                      nextId |-> [appData.nextId EXCEPT !.task = @ + 1]],
             res |-> Response(201, <<newTask>>)]
       [] request.op = "PUT" /\ request.resource = "clients" ->
            IF clientIndex # 0
            THEN [set |-> [clients |-> merged],
                  res |-> Response(200, <<merged[clientIndex]>>)]
            ELSE [set |-> NoWrite, res |-> Send404]
       [] request.op = "PUT" /\ request.resource = "projects" ->
            IF projectIndex # 0
            THEN [set |-> [projects |-> mergedProjects],
                  res |-> Response(200, <<mergedProjects[projectIndex]>>)]
            ELSE [set |-> NoWrite, res |-> Send404]
       [] request.op = "PUT" /\ request.resource = "tasks" ->
            IF taskIndex # 0
            THEN [set |-> [tasks |-> mergedTasks],
                  res |-> Response(200, <<mergedTasks[taskIndex]>>)]
            ELSE [set |-> NoWrite, res |-> Send404]
       [] request.op = "DELETE" /\ request.resource = "clients" ->
            IF SomeId(appData.clients, id)
            THEN [set |-> ClientDeleteSet(appData, id), res |-> Response(204, NoBody)]
            ELSE [set |-> NoWrite, res |-> Send404]
       [] request.op = "DELETE" /\ request.resource = "projects" ->
            IF SomeId(appData.projects, id)
            THEN [set |-> [tasks |-> TasksAfterProjectDelete(appData.tasks, id),
                           projects |-> WithoutId(appData.projects, id)],
                  res |-> Response(204, NoBody)]
            ELSE [set |-> NoWrite, res |-> Send404]
       [] request.op = "DELETE" /\ request.resource = "tasks" ->
            IF SomeId(appData.tasks, id)
            THEN [set |-> [tasks |-> WithoutId(appData.tasks, id)],
                  res |-> Response(204, NoBody)]
            ELSE [set |-> NoWrite, res |-> Send404]

\* The stored document.
MainData ==
  [clients |-> clients, projects |-> projects, tasks |-> tasks, nextId |-> nextId]

\* A write that sets one collection per call: the step applies the first of
\* tasks, projects and clients that the handler set.
UpdateOneCollectionPerCall(set) ==
  LET first == IF "tasks" \in DOMAIN set THEN "tasks"
               ELSE IF "projects" \in DOMAIN set THEN "projects" ELSE "clients"
  IN /\ tasks' = IF first = "tasks" /\ "tasks" \in DOMAIN set THEN set.tasks ELSE tasks
     /\ projects' = IF first = "projects" /\ "projects" \in DOMAIN set
                    THEN set.projects ELSE projects
     /\ clients' = IF first = "clients" /\ "clients" \in DOMAIN set
                   THEN set.clients ELSE clients
     /\ nextId' = IF "nextId" \in DOMAIN set THEN set.nextId ELSE nextId

\* updateOne({ _id: "main_data" }, { $set: set }): the fields named are
\* replaced, the others kept, in one step.
UpdateOne(set) ==
  /\ clients' = IF "clients" \in DOMAIN set THEN set.clients ELSE clients
  /\ projects' = IF "projects" \in DOMAIN set THEN set.projects ELSE projects
  /\ tasks' = IF "tasks" \in DOMAIN set THEN set.tasks ELSE tasks
  /\ nextId' = IF "nextId" \in DOMAIN set THEN set.nextId ELSE nextId

\* The requests of the interleaving specification. One POST is in flight at a
\* time; it interleaves with GET, PUT and DELETE requests, which interleave
\* with one another freely.
InterleavedRequests ==
  {Request("GET", "clients", Undef, NoBody),
   Request("DELETE", "clients", Str(1), NoBody)}
    \cup {Request("POST", r, Undef, <<PlainBody(r)>>) : r \in Resources}
    \cup {Request("PUT", "clients", Str(1), <<[id |-> Undef, name |-> n]>>) : n \in Names}

\* A request arrives and handleRequest's first findOne returns: the document,
\* or null when the collection is empty.
FirstFindOne(p, request) ==
  /\ inflight[p].pc = "idle"
  /\ inflight' = [inflight EXCEPT ![p] =
        [pc |-> IF seeded THEN "handle" ELSE "seed", req |-> request,
         appData |-> IF seeded THEN MainData ELSE defaultData]]
  /\ UNCHANGED <<docVars, req, res, appVars>>

FindOne(p, request) ==
  /\ request.op = "POST" =>
       /\ Posts(nextId) < MaxPosts
       /\ \A q \in Procs : inflight[q].req.op # "POST"
  /\ FirstFindOne(p, request)

\* insertOne({ _id: "main_data", ...defaultData }): a second document with
\* the same _id is refused, and the error is answered 500.
InsertOne(p) ==
  /\ inflight[p].pc = "seed"
  /\ IF seeded
     THEN /\ inflight' = [inflight EXCEPT ![p] = IdleProc]
          /\ req' = inflight[p].req
          /\ res' = InternalServerError("duplicate key")
          /\ UNCHANGED docVars
     ELSE /\ inflight' = [inflight EXCEPT ![p].pc = "reread"]
          /\ seeded' = TRUE
          /\ UNCHANGED <<clients, projects, tasks, nextId, req, res>>
  /\ UNCHANGED appVars

\* The findOne that follows the seeding.
FindOneSeeded(p) ==
  /\ inflight[p].pc = "reread"
  /\ inflight' = [inflight EXCEPT ![p].pc = "handle", ![p].appData = MainData]
  /\ UNCHANGED <<docVars, req, res, appVars>>

\* A handler that writes only if the document is still the one it read, and
\* answers 409 otherwise.
WriteAndRespondIfUnchanged(p) ==
  LET handled == Handled(inflight[p].req, inflight[p].appData)
      conflict == handled.set # NoWrite /\ inflight[p].appData # MainData
      answer == IF conflict THEN Response(409, NoBody) ELSE handled.res
  IN /\ inflight[p].pc = "handle"
     /\ UpdateOne(IF conflict THEN NoWrite ELSE handled.set)
     /\ inflight' = [inflight EXCEPT ![p] = IdleProc]
     /\ req' = inflight[p].req
     /\ res' = answer
     /\ UNCHANGED <<seeded, appVars>>

\* The handler's updateOne is applied and the handler answers.
WriteAndRespond(p) ==
  LET handled == Handled(inflight[p].req, inflight[p].appData) IN
  /\ inflight[p].pc = "handle"
  /\ UpdateOne(handled.set)
  /\ inflight' = [inflight EXCEPT ![p] = IdleProc]
  /\ req' = inflight[p].req
  /\ res' = handled.res
  /\ UNCHANGED <<seeded, appVars>>

NextInterleaved ==
  \/ \E p \in Procs, request \in InterleavedRequests : FindOne(p, request)
  \/ \E p \in Procs : InsertOne(p)
  \/ \E p \in Procs : FindOneSeeded(p)
  \/ \E p \in Procs : WriteAndRespond(p)

SpecInterleaved == Init /\ [][NextInterleaved]_vars

\* Two POST requests in flight at once. The clients send only POST /api/clients
\* (and GET /api/clients), so every overlap is one of two creations of the
\* same resource.
InFlightPosts == Cardinality({q \in Procs : inflight[q].req.op = "POST"})

RacingPostRequests ==
  {Request("GET", "clients", Undef, NoBody),
   Request("POST", "clients", Undef, <<PlainBody("clients")>>)}

ArriveRacingPost(p, request) ==
  /\ request.op = "POST" => Posts(nextId) + InFlightPosts < MaxPosts
  /\ FirstFindOne(p, request)

NextRacingPosts ==
  \/ \E p \in Procs, request \in RacingPostRequests : ArriveRacingPost(p, request)
  \/ \E p \in Procs : InsertOne(p)
  \/ \E p \in Procs : FindOneSeeded(p)
  \/ \E p \in Procs : WriteAndRespond(p)

SpecRacingPosts == Init /\ [][NextRacingPosts]_vars

\* Two POST requests to different resources in flight at once: a POST arrives
\* only while no POST to its own resource is being handled.
StoredEntities == Len(clients) + Len(projects) + Len(tasks)

CrossPostRequests ==
  {Request("POST", r, Undef, <<PlainBody(r)>>) : r \in {"clients", "tasks"}}

ArriveCrossPost(p, request) ==
  /\ StoredEntities + InFlightPosts < MaxPosts
  /\ \A q \in Procs : inflight[q].req.resource # request.resource
  /\ FirstFindOne(p, request)

NextCrossPosts ==
  \/ \E p \in Procs, request \in CrossPostRequests : ArriveCrossPost(p, request)
  \/ \E p \in Procs : InsertOne(p)
  \/ \E p \in Procs : FindOneSeeded(p)
  \/ \E p \in Procs : WriteAndRespond(p)

SpecCrossPosts == Init /\ [][NextCrossPosts]_vars

\* Two PUT requests on tasks in flight at once. Tasks are created one at a
\* time while nothing else is being handled; PUT /api/tasks/1 and
\* PUT /api/tasks/2 then overlap freely.
RacingPutRequests ==
  {Request("POST", "tasks", Undef, <<PlainBody("tasks")>>)}
    \cup {Request("PUT", "tasks", Str(i), <<[EmptyTask EXCEPT !.dueDate = Date(i)]>>) :
            i \in {1, 2}}

ArriveRacingPut(p, request) ==
  /\ \A q \in Procs : inflight[q].req.op # "POST"
  /\ request.op = "POST" =>
       /\ Posts(nextId) < MaxPosts
       /\ \A q \in Procs : inflight[q].pc = "idle"
  /\ FirstFindOne(p, request)

NextRacingPuts ==
  \/ \E p \in Procs, request \in RacingPutRequests : ArriveRacingPut(p, request)
  \/ \E p \in Procs : InsertOne(p)
  \/ \E p \in Procs : FindOneSeeded(p)
  \/ \E p \in Procs : WriteAndRespond(p)

SpecRacingPuts == Init /\ [][NextRacingPuts]_vars

\* Cascading deletes in flight with creations and updates of projects and
\* tasks. Foreign keys are the numerals the forms submit; a project or task is
\* posted only while the parent it names is stored, and one POST is in flight
\* at a time.
CascadeRequests ==
  {Request("POST", "clients", Undef, <<PlainBody("clients")>>),
   Request("POST", "projects", Undef, <<[EmptyProject EXCEPT !.clientId = Str(1)]>>),
   Request("POST", "tasks", Undef, <<[EmptyTask EXCEPT !.projectId = Str(1)]>>),
   Request("PUT", "projects", Str(1), <<[EmptyProject EXCEPT !.deadline = Date(1)]>>),
   Request("PUT", "tasks", Str(1), <<[EmptyTask EXCEPT !.dueDate = Date(1)]>>),
   Request("DELETE", "clients", Str(1), NoBody),
   Request("DELETE", "projects", Str(1), NoBody)}

ParentStored(request) ==
  CASE request.resource = "projects" -> SomeId(clients, Num(1))
    [] request.resource = "tasks" -> SomeId(projects, Num(1))
    [] OTHER -> TRUE

ArriveCascade(p, request) ==
  /\ request.op = "POST" =>
       /\ Posts(nextId) < MaxPosts
       /\ \A q \in Procs : inflight[q].req.op # "POST"
       /\ ParentStored(request)
  /\ FirstFindOne(p, request)

NextCascadeRaces ==
  \/ \E p \in Procs, request \in CascadeRequests : ArriveCascade(p, request)
  \/ \E p \in Procs : InsertOne(p)
  \/ \E p \in Procs : FindOneSeeded(p)
  \/ \E p \in Procs : WriteAndRespond(p)

SpecCascadeRaces == Init /\ [][NextCascadeRaces]_vars

\* ---------------------------------------------------------------- Dashboard

\* acc[status] || 0
OrZero(acc, status) == IF status \in DOMAIN acc THEN acc[status] ELSE 0

RECURSIVE CountByStatusNoDefault(_, _, _)
\* A count that starts at the element after the first of each status.
CountByStatusNoDefault(s, i, acc) ==
  IF i > Len(s) THEN acc
  ELSE CountByStatusNoDefault(s, i + 1,
         [status \in DOMAIN acc \cup {s[i].status} |->
            IF status = s[i].status THEN OrZero(acc, status) + (IF status \in DOMAIN acc THEN 1 ELSE 0)
            ELSE acc[status]])

RECURSIVE CountByStatus(_, _, _)
\* s.reduce((acc, e) => { acc[e.status] = (acc[e.status] || 0) + 1; return acc; }, {}),
\* from element i on.
CountByStatus(s, i, acc) ==
  IF i > Len(s) THEN acc
  ELSE CountByStatus(s, i + 1,
         [status \in DOMAIN acc \cup {s[i].status} |->
            IF status = s[i].status THEN OrZero(acc, status) + 1 ELSE acc[status]])

\* An instant: the day and the time of day.
Instant(day, tick) == day * TicksPerDay + tick

\* new Date(v).getTime(): a date string is the midnight that begins its day;
\* anything else is an Invalid Date.
GetTime(v) == IF v.k = "date" THEN Num(Instant(v.n, 0)) ELSE NaN

\* nextTwoWeeks.setDate(today.getDate() + 14): the same time of day, 14 days on.
WindowDays == 14
NextTwoWeeks(today) == today + WindowDays * TicksPerDay

\* v && new Date(v) >= today && new Date(v) <= nextTwoWeeks
InWindow(v, today) ==
  /\ v.k \notin {"undef", "empty"}
  /\ GetTime(v).k = "num"
  /\ GetTime(v).n >= today
  /\ GetTime(v).n <= NextTwoWeeks(today)

\* s.slice(0, limit)
Slice(s, limit) == SubSeq(s, 1, IF Len(s) < limit THEN Len(s) ELSE limit)

UpcomingLimit == 5

\* The first five of the merged list, sorted afterwards.
UpcomingDeadlinesSlicedFirst(ps, ts, today) ==
  LET DueProject(p) == InWindow(p.deadline, today)
      DueTask(t) == InWindow(t.dueDate, today)
      dueProjects == SelectSeq(ps, DueProject)
      dueTasks == SelectSeq(ts, DueTask)
      upcomingProjects ==
        [i \in 1..Len(dueProjects) |->
           [type |-> "Project", id |-> dueProjects[i].id, date |-> dueProjects[i].deadline]]
      upcomingTasks ==
        [i \in 1..Len(dueTasks) |->
           [type |-> "Task", id |-> dueTasks[i].id, date |-> dueTasks[i].dueDate]]
      all == Slice(upcomingProjects \o upcomingTasks, UpcomingLimit)
  IN SortByDate(all, FieldOf(all, "date"))

UpcomingDeadlines(ps, ts, today) ==
  LET DueProject(p) == InWindow(p.deadline, today)
      DueTask(t) == InWindow(t.dueDate, today)
      dueProjects == SelectSeq(ps, DueProject)
      dueTasks == SelectSeq(ts, DueTask)
      upcomingProjects ==
        [i \in 1..Len(dueProjects) |->
           [type |-> "Project", id |-> dueProjects[i].id, date |-> dueProjects[i].deadline]]
      upcomingTasks ==
        [i \in 1..Len(dueTasks) |->
           [type |-> "Task", id |-> dueTasks[i].id, date |-> dueTasks[i].dueDate]]
      all == upcomingProjects \o upcomingTasks
  IN Slice(SortByDate(all, FieldOf(all, "date")), UpcomingLimit)

\* The newest five instead of the first five.
RecentlyCompletedTasksFromEnd(ts) ==
  LET Done(task) == task.status = "Done"
      done == SelectSeq(ts, Done)
  IN SubSeq(done, IF Len(done) > 5 THEN Len(done) - 4 ELSE 1, Len(done))

\* tasks.filter(task => task.status === 'Done').slice(0, 5)
RecentLimit == 5
RecentlyCompletedTasks(ts) ==
  LET Done(task) == task.status = "Done" IN Slice(SelectSeq(ts, Done), RecentLimit)

\* addProject / addTask of App, once the server has answered: the new entity
\* is appended to the collection. The Dashboard is not on screen meanwhile.
UiAddProject(project) ==
  /\ ui' = [ui EXCEPT !.projects = Append(@, project)]
  /\ dash' = NotRendered
  /\ lists' = NotListed
  /\ UNCHANGED <<docVars, req, res, inflight>>

UiAddTask(task) ==
  /\ ui' = [ui EXCEPT !.tasks = Append(@, task)]
  /\ dash' = NotRendered
  /\ lists' = NotListed
  /\ UNCHANGED <<docVars, req, res, inflight>>

\* The Dashboard is rendered at the instant now: its memoised views are
\* computed from the collections App holds.
ShowDashboard(now) ==
  /\ dash' = [today |-> Num(now),
              projectStats |-> CountByStatus(ui.projects, 1, NoCounts),
              taskStats |-> CountByStatus(ui.tasks, 1, NoCounts),
              upcomingDeadlines |-> UpcomingDeadlines(ui.projects, ui.tasks, now),
              recentlyCompletedTasks |-> RecentlyCompletedTasks(ui.tasks)]
  /\ UNCHANGED <<docVars, req, res, inflight, ui, lists>>

\* The day the model calls today, and the instants at which it renders.
Today == 20
RenderInstants == {Instant(Today, tick) : tick \in 0..(TicksPerDay - 1)}

\* Entities as the Dashboard reads them: the id, the status and the date.
AnyStatus == Statuses \cup {"On Hold"}
UiItems(s) == Len(s.projects) + Len(s.tasks)
StatusProjects == [id : {Num(Len(ui.projects) + 1)}, status : AnyStatus, deadline : {EmptyString}]
StatusTasks == [id : {Num(Len(ui.tasks) + 1)}, status : AnyStatus, dueDate : {EmptyString}]

NextDashboardCounts ==
  \/ \E project \in StatusProjects :
       UiItems(ui) < MaxUiItems /\ UiAddProject(project)
  \/ \E task \in StatusTasks :
       UiItems(ui) < MaxUiItems /\ UiAddTask(task)
  \/ ShowDashboard(Instant(Today, 0))

SpecDashboardCounts == Init /\ [][NextDashboardCounts]_vars

\* Dates around the window of today: a blank field, a string that is no
\* date, yesterday, today, tomorrow, the 14th day from today, the 15th.
UiDates ==
  {EmptyString, Text(1), Date(Today - 1), Date(Today), Date(Today + 1),
   Date(Today + WindowDays), Date(Today + WindowDays + 1)}
DatedProjects == [id : {Num(Len(ui.projects) + 1)}, status : {"To Do"}, deadline : UiDates]
DatedTasks == [id : {Num(Len(ui.tasks) + 1)}, status : {"To Do"}, dueDate : UiDates]

NextDashboardDates ==
  \/ \E project \in DatedProjects :
       UiItems(ui) < MaxDatedItems /\ UiAddProject(project)
  \/ \E task \in DatedTasks :
       UiItems(ui) < MaxDatedItems /\ UiAddTask(task)
  \/ \E now \in RenderInstants : ShowDashboard(now)

SpecDashboardDates == Init /\ [][NextDashboardDates]_vars

\* More dated entities than the upcoming list shows: deadlines on the three
\* days after today, and one past the window.
UpcomingDates ==
  {Date(Today + 1), Date(Today + 2), Date(Today + 3), Date(Today + WindowDays + 1)}
DueProjects == [id : {Num(Len(ui.projects) + 1)}, status : {"To Do"}, deadline : UpcomingDates]
DueTasks == [id : {Num(Len(ui.tasks) + 1)}, status : {"To Do"}, dueDate : UpcomingDates]

NextDashboardUpcoming ==
  \/ \E project \in DueProjects :
       UiItems(ui) < MaxUiItems /\ UiAddProject(project)
  \/ \E task \in DueTasks :
       UiItems(ui) < MaxUiItems /\ UiAddTask(task)
  \/ ShowDashboard(Instant(Today, 1))

SpecDashboardUpcoming == Init /\ [][NextDashboardUpcoming]_vars

\* ---------------------------------------------------- ProjectList, TaskList

\* Groups filled by unshift instead of push.
RECURSIVE GroupedNewestFirst(_, _, _)
GroupedNewestFirst(s, i, grouped) ==
  IF i > Len(s) THEN grouped
  ELSE GroupedNewestFirst(s, i + 1, [grouped EXCEPT ![s[i].status] = <<s[i]>> \o @])

RECURSIVE Grouped(_, _, _)
\* for (const e of s) { grouped[e.status].push(e); }, from element i on.
Grouped(s, i, grouped) ==
  IF i > Len(s) THEN grouped
  ELSE Grouped(s, i + 1, [grouped EXCEPT ![s[i].status] = Append(@, s[i])])

\* grouped[e.status] is undefined for a status that is none of the three
\* keys, and .push on it throws a TypeError.
GroupingThrows(s) == \E i \in 1..Len(s) : s[i].status \notin Statuses

\* The memo of a list view: the three groups, or the render's TypeError.
GroupsByStatus(s) ==
  IF GroupingThrows(s)
  THEN [NoGroups EXCEPT !.shown = TRUE, !.threw = TRUE]
  ELSE [shown |-> TRUE, threw |-> FALSE, grouped |-> Grouped(s, 1, NoGroups.grouped)]

\* One view is on screen at a time.
ShowProjectList ==
  /\ lists' = [NotListed EXCEPT !.projectsByStatus = GroupsByStatus(ui.projects)]
  /\ UNCHANGED <<docVars, req, res, inflight, ui, dash>>

ShowTaskList ==
  /\ lists' = [NotListed EXCEPT !.tasksByStatus = GroupsByStatus(ui.tasks)]
  /\ UNCHANGED <<docVars, req, res, inflight, ui, dash>>

NextLists ==
  \/ \E project \in StatusProjects :
       UiItems(ui) < MaxUiItems /\ UiAddProject(project)
  \/ \E task \in StatusTasks :
       UiItems(ui) < MaxUiItems /\ UiAddTask(task)
  \/ ShowProjectList
  \/ ShowTaskList

SpecLists == Init /\ [][NextLists]_vars

\* ---------------------------------------------------------------------- App

\* fetch against the document store, one request at a time: the handler runs
\* on the stored document and App sees its response. When the store fails
\* the request is answered 500 and nothing is written.
Fetch(request, fails) ==
  LET handled == IF fails
                 THEN [set |-> NoWrite, res |-> InternalServerError("store unavailable")]
                 ELSE Handled(request, AppData)
  IN /\ UpdateOne(handled.set)
     /\ seeded' = TRUE
     /\ req' = request
     /\ res' = handled.res
     /\ UNCHANGED <<inflight, dash, lists>>

\* response.ok
Ok(response) == response.status >= 200 /\ response.status <= 299

\* `${id}` in the request's URL
UrlOf(id) == JsString(id)

\* prev => [...prev, newData]
Added(prev, response) == Append(prev, response.body[1])

\* prev => prev.map(e => e.id === saved.id ? saved : e)
Replaced(prev, response) ==
  LET saved == response.body[1]
  IN [i \in 1..Len(prev) |-> IF StrictEq(prev[i].id, saved.id) THEN saved ELSE prev[i]]

\* projects.filter(p => p.clientId === clientId).map(p => p.id)
ClientProjectIds(ps, clientId) ==
  LET Owned(p) == StrictEq(p.clientId, clientId)
      owned == SelectSeq(ps, Owned)
  IN [i \in 1..Len(owned) |-> owned[i].id]

\* The three setState calls of deleteClient.
UiAfterClientDelete(state, clientId) ==
  LET clientProjectIds == ClientProjectIds(state.projects, clientId)
      KeepProject(p) == ~StrictEq(p.clientId, clientId)
      KeepTask(t) == ~Includes(clientProjectIds, t.projectId)
  IN [clients |-> WithoutId(state.clients, clientId),
      projects |-> SelectSeq(state.projects, KeepProject),
      tasks |-> SelectSeq(state.tasks, KeepTask)]

\* The two setState calls of deleteProject.
UiAfterProjectDelete(state, projectId) ==
  LET KeepTask(t) == ~StrictEq(t.projectId, projectId)
  IN [state EXCEPT !.projects = WithoutId(@, projectId),
                   !.tasks = SelectSeq(@, KeepTask)]

AddClient(client, fails) ==
  /\ Posts(AppData.nextId) < MaxPosts
  /\ Fetch(Request("POST", "clients", Undef, <<client>>), fails)
  /\ ui' = IF Ok(res') THEN [ui EXCEPT !.clients = Added(@, res')] ELSE ui

UpdateClient(updatedClient, fails) ==
  /\ Fetch(Request("PUT", "clients", UrlOf(updatedClient.id), <<updatedClient>>), fails)
  /\ ui' = IF Ok(res') THEN [ui EXCEPT !.clients = Replaced(@, res')] ELSE ui

AppDeleteClient(clientId, fails) ==
  /\ Fetch(Request("DELETE", "clients", UrlOf(clientId), NoBody), fails)
  /\ ui' = IF Ok(res') THEN UiAfterClientDelete(ui, clientId) ELSE ui

AddProject(project, fails) ==
  /\ Posts(AppData.nextId) < MaxPosts
  /\ Fetch(Request("POST", "projects", Undef, <<project>>), fails)
  /\ ui' = IF Ok(res') THEN [ui EXCEPT !.projects = Added(@, res')] ELSE ui

UpdateProject(updatedProject, fails) ==
  /\ Fetch(Request("PUT", "projects", UrlOf(updatedProject.id), <<updatedProject>>), fails)
  /\ ui' = IF Ok(res') THEN [ui EXCEPT !.projects = Replaced(@, res')] ELSE ui

AppDeleteProject(projectId, fails) ==
  /\ Fetch(Request("DELETE", "projects", UrlOf(projectId), NoBody), fails)
  /\ ui' = IF Ok(res') THEN UiAfterProjectDelete(ui, projectId) ELSE ui

AddTask(task, fails) ==
  /\ Posts(AppData.nextId) < MaxPosts
  /\ Fetch(Request("POST", "tasks", Undef, <<task>>), fails)
  /\ ui' = IF Ok(res') THEN [ui EXCEPT !.tasks = Added(@, res')] ELSE ui

UpdateTask(updatedTask, fails) ==
  /\ Fetch(Request("PUT", "tasks", UrlOf(updatedTask.id), <<updatedTask>>), fails)
  /\ ui' = IF Ok(res') THEN [ui EXCEPT !.tasks = Replaced(@, res')] ELSE ui

\* A deleteTask that removes the task from the screen without looking at the
\* response.
AppDeleteTaskOptimistic(taskId, fails) ==
  /\ Fetch(Request("DELETE", "tasks", UrlOf(taskId), NoBody), fails)
  /\ ui' = [ui EXCEPT !.tasks = WithoutId(@, taskId)]

AppDeleteTask(taskId, fails) ==
  /\ Fetch(Request("DELETE", "tasks", UrlOf(taskId), NoBody), fails)
  /\ ui' = IF Ok(res') THEN [ui EXCEPT !.tasks = WithoutId(@, taskId)] ELSE ui

\* What the forms submit: a new entity without an id, or the entity being
\* edited with the form's values and its own id.
Shown(s) == {s[i] : i \in 1..Len(s)}
FormClients == [id : {Undef}, name : {Text(1)}]
FormProjects ==
  [id : {Undef}, clientId : ForeignKeys, deadline : {Undef}, budget : {Undef},
   progress : {Undef}]
FormTasks == [id : {Undef}, projectId : ForeignKeys, dueDate : {Undef}]
EditedClients == {[c EXCEPT !.name = Text(2)] : c \in Shown(ui.clients)}
EditedProjects == {[q EXCEPT !.clientId = k] : q \in Shown(ui.projects), k \in ForeignKeys}
EditedTasks == {[t EXCEPT !.projectId = k] : t \in Shown(ui.tasks), k \in ForeignKeys}

NextApp ==
  \/ \E client \in FormClients, fails \in BOOLEAN : AddClient(client, fails)
  \/ \E client \in EditedClients, fails \in BOOLEAN : UpdateClient(client, fails)
  \/ \E client \in Shown(ui.clients), fails \in BOOLEAN : AppDeleteClient(client.id, fails)
  \/ \E project \in FormProjects, fails \in BOOLEAN : AddProject(project, fails)
  \/ \E project \in EditedProjects, fails \in BOOLEAN : UpdateProject(project, fails)
  \/ \E project \in Shown(ui.projects), fails \in BOOLEAN : AppDeleteProject(project.id, fails)
  \/ \E task \in FormTasks, fails \in BOOLEAN : AddTask(task, fails)
  \/ \E task \in EditedTasks, fails \in BOOLEAN : UpdateTask(task, fails)
  \/ \E task \in Shown(ui.tasks), fails \in BOOLEAN : AppDeleteTask(task.id, fails)

SpecApp == Init /\ [][NextApp]_vars

\* The project handlers for bodies whose budget and progress are any JSON
\* value: missing, a number in or out of range, a string that is no number.
Budgets == {Undef, Num(5), Num(-5), Text(1)}
Progresses == {Undef, Num(50), Num(150), Num(-1)}
AmountBodies ==
  [id : {Undef}, clientId : {Num(1)}, deadline : {Undef}, budget : Budgets,
   progress : Progresses]

NextAmounts ==
  \/ GetProjects
  \/ \E body \in AmountBodies : PostProject(body)
  \/ \E urlId \in UrlIds, body \in AmountBodies : PutProject(urlId, body)

SpecAmounts == Init /\ [][NextAmounts]_vars

\* ----------------------------------------------------------------- claims

\* The collection of a resource, among the three given.
CollectionOf(c, p, t, resource) ==
  CASE resource = "clients" -> c
    [] resource = "projects" -> p
    [] resource = "tasks" -> t
    [] OTHER -> <<>>

\* The stored collection of a resource.
Collection(resource) == CollectionOf(clients, projects, tasks, resource)

\* The id counter of a resource.
Counter(resource) ==
  CASE resource = "clients" -> nextId.client
    [] resource = "projects" -> nextId.project
    [] resource = "tasks" -> nextId.task
    [] OTHER -> 0

\* The id a URL numeral names.
IdOf(urlId) == IF urlId.k = "str" THEN Num(urlId.n) ELSE NaN

\* Some entity of s has this id.
HasId(s, id) == \E i \in 1..Len(s) : s[i].id = id

\* A foreign key holds this id, as a number or as its numeral.
KeyIs(fk, id) == fk.k \in {"num", "str"} /\ id.k \in {"num", "str"} /\ fk.n = id.n

\* s without its i-th element.
RemoveAt(s, i) == SubSeq(s, 1, i - 1) \o SubSeq(s, i + 1, Len(s))

\* The request leaves the collections and the id counters as they were.
StoreUnchanged ==
  /\ clients' = clients
  /\ projects' = projects
  /\ tasks' = tasks
  /\ nextId' = nextId

\* C1: after DELETE /api/clients/:id answers 204, no client has that id, no
\* project's clientId holds that id, and no task's projectId holds the id of
\* a project the delete removed.
C1_ClientDeleteRemovesDependents ==
  [][(req'.op = "DELETE" /\ req'.resource = "clients" /\ res'.status = 204) =>
       LET id == IdOf(req'.id)
           removed == {i \in 1..Len(projects) : KeyIs(projects[i].clientId, id)}
       IN /\ ~HasId(clients', id)
          /\ \A i \in 1..Len(projects') : ~KeyIs(projects'[i].clientId, id)
          /\ \A t \in 1..Len(tasks'), i \in removed :
               ~KeyIs(tasks'[t].projectId, projects[i].id)]_vars

\* C2: DELETE /api/projects/:id answering 204 removes exactly the project
\* with that id and the tasks whose projectId holds it, and changes no
\* client, no other project and no other task.
C2_ProjectDeleteRemovesExactlyOne ==
  [][(req'.op = "DELETE" /\ req'.resource = "projects" /\ res'.status = 204) =>
       LET id == IdOf(req'.id)
           NotOwned(t) == ~KeyIs(t.projectId, id)
       IN /\ \E i \in 1..Len(projects) :
               projects[i].id = id /\ projects' = RemoveAt(projects, i)
          /\ tasks' = SelectSeq(tasks, NotOwned)
          /\ clients' = clients]_vars

\* C3: a PUT whose id no stored entity of the resource has answers 404 and
\* leaves the three collections and the id counters as they were.
C3_PutUnknownIdIs404 ==
  [][(req'.op = "PUT" /\ ~HasId(Collection(req'.resource), IdOf(req'.id))) =>
       (res'.status = 404 /\ StoreUnchanged)]_vars

C3_Witness ==
  /\ req.op = "PUT"
  /\ res.status = 404
  /\ req.resource = "projects"
  /\ Len(projects) > 0
  /\ ~HasId(projects, IdOf(req.id))

\* C4: a DELETE whose id no stored entity of the resource has answers 404 and
\* leaves the collections and the id counters as they were; with an id some
\* entity has, it answers 204.
C4_DeleteUnknownIdIs404 ==
  [][req'.op = "DELETE" =>
       IF HasId(Collection(req'.resource), IdOf(req'.id))
       THEN res'.status = 204
       ELSE res'.status = 404 /\ StoreUnchanged]_vars

C4_Witness ==
  /\ req.op = "DELETE"
  /\ res.status = 404
  /\ req.resource = "tasks"
  /\ Len(tasks) > 0
  /\ ~HasId(tasks, IdOf(req.id))

\* C5: in the Supabase backend a DELETE whose id no row has answers 404, and
\* it answers 204 only when a row with that id existed (a failed database
\* call, answered 500, aside).
C5_SupabaseDeleteUnknownIdIs404 ==
  [][(req'.op = "DELETE" /\ res'.status # 500) =>
       IF HasId(Collection(req'.resource), IdOf(req'.id))
       THEN res'.status = 204
       ELSE res'.status = 404]_vars

\* C6: POST answers 201 with the entity it appended to the collection, and
\* that entity's id is the value the resource's counter had, whatever id the
\* body carried.
C6_PostAssignsCounterId ==
  [][req'.op = "POST" =>
       LET before == Collection(req'.resource)
           after == CollectionOf(clients', projects', tasks', req'.resource)
       IN /\ res'.status = 201
          /\ Len(after) = Len(before) + 1
          /\ res'.body = <<after[Len(after)]>>
          /\ after[Len(after)].id = Num(Counter(req'.resource))]_vars

\* C7: no two entities of one collection have the same id.
UniqueIn(s) == \A i, j \in 1..Len(s) : i # j => s[i].id # s[j].id
C7_IdsUnique == UniqueIn(clients) /\ UniqueIn(projects) /\ UniqueIn(tasks)

\* C8: PUT on an existing entity answers 200 with, and stores, the previous
\* entity overlaid with the body's fields: a field the body omits keeps its
\* value, a field it carries takes the body's.
C8_PutMergesPresentFields ==
  [][(req'.op = "PUT" /\ res'.status = 200) =>
       LET before == Collection(req'.resource)
           after == CollectionOf(clients', projects', tasks', req'.resource)
           body == req'.body[1]
       IN \E i \in 1..Len(before) :
            /\ before[i].id = IdOf(req'.id)
            /\ res'.body = <<after[i]>>
            /\ \A f \in (DOMAIN body) \ {"id"} :
                 after[i][f] = IF body[f] # Undef THEN body[f] ELSE before[i][f]]_vars

\* C9: PUT on an existing entity keeps the entity's id (the URL id) whatever
\* id the body carries, keeps its place in the collection, and changes no
\* other entity.
C9_PutKeepsId ==
  [][(req'.op = "PUT" /\ res'.status = 200) =>
       LET before == Collection(req'.resource)
           after == CollectionOf(clients', projects', tasks', req'.resource)
       IN /\ Len(after) = Len(before)
          /\ \E i \in 1..Len(before) :
               /\ before[i].id = IdOf(req'.id)
               /\ after[i].id = IdOf(req'.id)
               /\ res'.body = <<after[i]>>
               /\ \A j \in 1..Len(before) : j # i => after[j] = before[j]]_vars

C9_Witness ==
  /\ req.op = "PUT"
  /\ res.status = 200
  /\ req.body[1].id # Undef
  /\ req.body[1].id # IdOf(req.id)
  /\ Len(Collection(req.resource)) >= 2

\* C10: GET /api/projects (by deadline) and GET /api/tasks (by dueDate)
\* answer every stored entity once, dates ascending, and every entity whose
\* date is missing or unparseable after all entities with a valid date.
DateField(resource) == IF resource = "projects" THEN "deadline" ELSE "dueDate"
ValidDate(v) == v.k = "date"
Occurrences(s, e) == Cardinality({i \in 1..Len(s) : s[i] = e})
C10_ListSortedInvalidLast ==
  (req.op = "GET" /\ req.resource \in {"projects", "tasks"}) =>
    LET out == res.body
        stored == Collection(req.resource)
        f == DateField(req.resource)
    IN /\ Len(out) = Len(stored)
       /\ \A i \in 1..Len(stored) :
            Occurrences(out, stored[i]) = Occurrences(stored, stored[i])
       /\ \A i, j \in 1..Len(out) : i < j =>
            /\ (ValidDate(out[i][f]) /\ ValidDate(out[j][f]))
                 => out[i][f].n <= out[j][f].n
            /\ ~(~ValidDate(out[i][f]) /\ ValidDate(out[j][f]))

\* C11: GET /api/clients answers 200 with every stored client exactly once,
\* ascending by name, and leaves the stored collection and its order as they
\* were.
AscendingByName(s) ==
  \A i, j \in 1..Len(s) :
    (i < j /\ IsString(s[i].name) /\ IsString(s[j].name)) => s[i].name.n <= s[j].name.n
C11_GetClientsSortedCopy ==
  [][(req'.op = "GET" /\ req'.resource = "clients") =>
       /\ res'.status = 200
       /\ Len(res'.body) = Len(clients)
       /\ \A i \in 1..Len(clients) :
            Occurrences(res'.body, clients[i]) = Occurrences(clients, clients[i])
       /\ AscendingByName(res'.body)
       /\ clients' = clients]_vars

\* C12: a project stored by POST /api/projects names a client that is in the
\* store at that moment, a task stored by POST /api/tasks names a project
\* that is; a create whose foreign key names no stored parent adds nothing.
ParentsOf(resource) == IF resource = "projects" THEN clients ELSE projects
ForeignKeyOf(resource, entity) ==
  IF resource = "projects" THEN entity.clientId ELSE entity.projectId
C12_CreateNamesStoredParent ==
  [][(req'.op = "POST" /\ req'.resource \in {"projects", "tasks"}) =>
       LET parents == ParentsOf(req'.resource)
           key == ForeignKeyOf(req'.resource, req'.body[1])
           parentStored == \E i \in 1..Len(parents) : KeyIs(key, parents[i].id)
           after == CollectionOf(clients', projects', tasks', req'.resource)
       IN /\ res'.status = 201 => parentStored
          /\ ~parentStored => after = Collection(req'.resource)]_vars

\* C16: DELETE /api/tasks/:id answering 204 removes exactly the task with
\* that id; every other task, all projects, all clients and the id counters
\* stay as they were.
C16_TaskDeleteRemovesOnlyTheTask ==
  [][(req'.op = "DELETE" /\ req'.resource = "tasks" /\ res'.status = 204) =>
       /\ \E i \in 1..Len(tasks) :
            tasks[i].id = IdOf(req'.id) /\ tasks' = RemoveAt(tasks, i)
       /\ projects' = projects
       /\ clients' = clients
       /\ nextId' = nextId]_vars

\* C17: every stored project's budget is a non-negative number and its
\* progress an integer from 0 to 100, whatever budget and progress the POST
\* and PUT bodies carried.
C17_BudgetAndProgressInRange ==
  \A i \in 1..Len(projects) :
    /\ projects[i].budget.k = "num"
    /\ projects[i].budget.n >= 0
    /\ projects[i].progress.k = "num"
    /\ projects[i].progress.n >= 0
    /\ projects[i].progress.n <= 100

\* C15: when a store read or write throws while a request is handled, one
\* response is sent, it is a 500 carrying the error's message, and the stored
\* clients, projects, tasks and id counters are what they were before the
\* request.
C15_StoreErrorIs500AndNothingPersisted ==
  [][req'.thrown # NoError =>
       /\ res'.sent = 1
       /\ res'.status = 500
       /\ res'.body[1].details = req'.thrown.message
       /\ StoreUnchanged]_vars

C15_Witness ==
  /\ req.op = "POST"
  /\ req.thrown.at = "updateOne"
  /\ res.status = 500
  /\ Len(Collection(req.resource)) >= 1

\* C13: the cascade of a client delete reaches the store as one write. A
\* delete that has read its document and found the client is, in every step
\* of every interleaving, either still waiting with nothing of it written, or
\* finished with its tasks, projects and clients written together and
\* answered 204; and a request's read takes the three collections of one
\* moment.
PendingClientDelete(p) ==
  /\ inflight[p].pc = "handle"
  /\ inflight[p].req.op = "DELETE"
  /\ SomeId(inflight[p].appData.clients, JsNumber(inflight[p].req.id))
C13_ClientDeleteIsOneWrite ==
  [][\A p \in Procs :
       /\ (PendingClientDelete(p) /\ inflight'[p] # inflight[p]) =>
            LET set == ClientDeleteSet(inflight[p].appData, JsNumber(inflight[p].req.id))
            IN /\ clients' = set.clients
               /\ projects' = set.projects
               /\ tasks' = set.tasks
               /\ inflight'[p].pc = "idle"
               /\ res' = Response(204, NoBody)
       /\ (inflight[p].pc # "handle" /\ inflight'[p].pc = "handle") =>
            /\ inflight'[p].appData.clients = clients
            /\ inflight'[p].appData.projects = projects
            /\ inflight'[p].appData.tasks = tasks]_vars

\* A client delete that removes a project and a task has just been written
\* while the other connection holds the document it read before the delete.
C13_Witness ==
  /\ req.op = "DELETE"
  /\ res.status = 204
  /\ \E q \in Procs :
       /\ inflight[q].pc = "handle"
       /\ Len(inflight[q].appData.clients) > Len(clients)
       /\ Len(inflight[q].appData.projects) > Len(projects)
       /\ Len(inflight[q].appData.tasks) > Len(tasks)

\* C14: a PUT that has read a document holding the entity answers 200 whatever
\* another PUT for the same entity wrote in between, and when its write is
\* applied the entity stored is the merged entity it returns: after two such
\* requests the store holds what the one written last returned.
PendingPut(p) ==
  /\ inflight[p].pc = "handle"
  /\ inflight[p].req.op = "PUT"
  /\ SomeId(inflight[p].appData.clients, JsNumber(inflight[p].req.id))
C14_LastPutWins ==
  [][\A p \in Procs :
       (PendingPut(p) /\ inflight'[p] # inflight[p]) =>
         LET stored == CollectionOf(clients', projects', tasks', inflight[p].req.resource)
             i == FindIndex(stored, JsNumber(inflight[p].req.id))
         IN /\ res'.status = 200
            /\ i # 0
            /\ stored[i] = res'.body[1]
            /\ stored[i] = MergedClient(inflight[p].appData.clients[
                              FindIndex(inflight[p].appData.clients,
                                        JsNumber(inflight[p].req.id))],
                              inflight[p].req.body[1])]_vars

\* Two PUTs for client 1 overlap: one has been written and answered 200, the
\* other read the document before that write and has yet to write a
\* different name.
C14_Witness ==
  /\ req.op = "PUT"
  /\ res.status = 200
  /\ \E q \in Procs :
       /\ PendingPut(q)
       /\ inflight[q].req.id = req.id
       /\ inflight[q].req.body # req.body
       /\ inflight[q].appData.clients # clients
       /\ SomeId(clients, JsNumber(req.id))
       /\ clients[FindIndex(clients, JsNumber(req.id))] = res.body[1]

\* C18: a project (by its deadline) or a task (by its dueDate) is among the
\* Dashboard's upcoming deadlines exactly when its calendar date is today,
\* one of the next 14 days, or the 14th day itself, whatever the time of day
\* at which the view is computed; a blank or unparseable date never is.
\* (The collections checked hold fewer items than the list shows.)
CalendarDay(instant) == instant \div TicksPerDay
DatedWithinWindow(v, today) ==
  /\ v.k = "date"
  /\ v.n >= CalendarDay(today)
  /\ v.n <= CalendarDay(today) + WindowDays
Listed(type, id) ==
  \E i \in 1..Len(dash.upcomingDeadlines) :
    dash.upcomingDeadlines[i].type = type /\ dash.upcomingDeadlines[i].id = id
C18_UpcomingWindowInclusive ==
  (dash.today # Undef /\ UiItems(ui) <= UpcomingLimit) =>
    /\ \A i \in 1..Len(ui.projects) :
         Listed("Project", ui.projects[i].id)
           <=> DatedWithinWindow(ui.projects[i].deadline, dash.today.n)
    /\ \A i \in 1..Len(ui.tasks) :
         Listed("Task", ui.tasks[i].id)
           <=> DatedWithinWindow(ui.tasks[i].dueDate, dash.today.n)

\* C19: the Dashboard's recently-completed list is the first min(5, n) tasks
\* with status Done in the order of the tasks collection, n being the number
\* of Done tasks: no task of another status, no task twice; and rendering
\* leaves the collections as they were.
IsDone(ts, i) == ts[i].status = "Done"
DoneBefore(ts, i) == Cardinality({k \in 1..(i - 1) : IsDone(ts, k)})
C19_RecentIsFirstFiveDone ==
  [][dash'.today # Undef =>
       LET ts == ui.tasks
           recent == dash'.recentlyCompletedTasks
           n == Cardinality({i \in 1..Len(ts) : IsDone(ts, i)})
       IN /\ ui' = ui
          /\ Len(recent) = IF n < 5 THEN n ELSE 5
          /\ \A j \in 1..Len(recent) :
               \E i \in 1..Len(ts) :
                 IsDone(ts, i) /\ DoneBefore(ts, i) = j - 1 /\ recent[j] = ts[i]
          /\ \A j, k \in 1..Len(recent) : j # k => recent[j].id # recent[k].id]_vars

C19_Witness ==
  /\ dash.today # Undef
  /\ Len(dash.recentlyCompletedTasks) = 5
  /\ Cardinality({i \in 1..Len(ui.tasks) : IsDone(ui.tasks, i)}) > 5

\* C20: for each status of the enum the count the Dashboard shows for
\* projects is the number of projects with that status, 0 when there is
\* none, and likewise for tasks; when every project's status is of the enum
\* the three project counts add up to the number of projects.
ShownCount(stats, status) == OrZero(stats, status)
NumberWith(s, status) == Cardinality({i \in 1..Len(s) : s[i].status = status})
C20_CountsByStatus ==
  dash.today # Undef =>
    /\ \A status \in Statuses :
         /\ ShownCount(dash.projectStats, status) = NumberWith(ui.projects, status)
         /\ ShownCount(dash.taskStats, status) = NumberWith(ui.tasks, status)
    /\ (\A i \in 1..Len(ui.projects) : ui.projects[i].status \in Statuses) =>
         ShownCount(dash.projectStats, "To Do") + ShownCount(dash.projectStats, "In Progress")
           + ShownCount(dash.projectStats, "Done") = Len(ui.projects)

C20_Witness ==
  /\ dash.today # Undef
  /\ Len(ui.projects) >= 3
  /\ \A i \in 1..Len(ui.projects) : ui.projects[i].status \in Statuses
  /\ NumberWith(ui.projects, "To Do") = 0
  /\ NumberWith(ui.projects, "Done") >= 2
  /\ NumberWith(ui.tasks, "In Progress") >= 2

\* C21: when App.deleteClient gets an ok response, and App's collections held
\* the same entities as the store before it, they hold the same entities as
\* the store after it: the same ids in clients, in projects and in tasks.
IdsOf(s) == FieldOf(s, "id")
SameEntities(c, p, t, state) ==
  /\ IdsOf(state.clients) = IdsOf(c)
  /\ IdsOf(state.projects) = IdsOf(p)
  /\ IdsOf(state.tasks) = IdsOf(t)
C21_UiDeleteClientMatchesStore ==
  [][(req'.op = "DELETE" /\ req'.resource = "clients" /\ Ok(res')
        /\ SameEntities(clients, projects, tasks, ui)) =>
       SameEntities(clients', projects', tasks', ui')]_vars

\* C28: an App handler whose response is not ok (404 or 500) leaves App's
\* clients, projects and tasks as they were; one whose response is ok changes
\* only the collections of its operation: add and update their own
\* collection, deleteProject projects and tasks, deleteClient all three.
Touched(op, resource) ==
  CASE op = "DELETE" /\ resource = "clients" -> {"clients", "projects", "tasks"}
    [] op = "DELETE" /\ resource = "projects" -> {"projects", "tasks"}
    [] OTHER -> {resource}
C28_UiChangesOnlyOnOk ==
  [][/\ ~Ok(res') => ui' = ui
     /\ Ok(res') =>
          \A collection \in Resources :
            ui'[collection] # ui[collection] => collection \in Touched(req'.op, req'.resource)]_vars

\* A handler was answered 404 for an entity App still shows.
C28_Witness ==
  /\ res.status = 404
  /\ req.op \in {"PUT", "DELETE"}
  /\ Len(ui[req.resource]) >= 1

\* C22: for a list whose entities all have a status of the enum, the status
\* groups of ProjectList and of TaskList hold each entity once, in the group
\* of its own status and in no other, in the order of the list, and the
\* three group sizes add up to the list's length.
IsPartition(s, groups) ==
  /\ ~groups.threw
  /\ \A i \in 1..Len(s), status \in Statuses :
       Occurrences(groups.grouped[status], s[i]) = IF s[i].status = status THEN 1 ELSE 0
  /\ \A status \in Statuses :
       \A j, k \in 1..Len(groups.grouped[status]) :
         j < k => groups.grouped[status][j].id.n < groups.grouped[status][k].id.n
  /\ Len(groups.grouped["To Do"]) + Len(groups.grouped["In Progress"])
       + Len(groups.grouped["Done"]) = Len(s)
InEnum(s) == \A i \in 1..Len(s) : s[i].status \in Statuses
C22_StatusGroupsPartition ==
  /\ (lists.projectsByStatus.shown /\ InEnum(ui.projects)) =>
       IsPartition(ui.projects, lists.projectsByStatus)
  /\ (lists.tasksByStatus.shown /\ InEnum(ui.tasks)) =>
       IsPartition(ui.tasks, lists.tasksByStatus)

C22_Witness ==
  /\ lists.tasksByStatus.shown
  /\ InEnum(ui.tasks)
  /\ Len(lists.tasksByStatus.grouped["Done"]) >= 2
  /\ Len(lists.tasksByStatus.grouped["To Do"]) >= 2
  /\ ui.tasks[1].status = "Done"
  /\ ui.tasks[2].status = "To Do"
  /\ ui.tasks[3].status = "Done"

\* C23: when a POST request's write lands, every entity the collection held is
\* still in it, the collection has grown by the created entity, and no two of
\* its entities share an id, whatever other POST to the resource was in flight.
PendingPost(p) ==
  /\ inflight[p].pc = "handle"
  /\ inflight[p].req.op = "POST"
Distinct(s) == \A i, j \in 1..Len(s) : i # j => s[i].id # s[j].id
C23_RacingPostsKeepBoth ==
  [][\A p \in Procs :
       (PendingPost(p) /\ inflight'[p] # inflight[p]) =>
         LET before == Collection(inflight[p].req.resource)
             after == CollectionOf(clients', projects', tasks', inflight[p].req.resource)
         IN /\ Len(after) = Len(before) + 1
            /\ \A i \in 1..Len(before) : after[i] = before[i]
            /\ Distinct(after)]_vars

\* C24: when a POST request's write lands while POSTs overlap only across
\* resources, the collections of the other resources are as they were, no id
\* counter has gone down, and the created entity's id was held by no entity
\* of its resource.
C24_CrossPostsDoNotInterfere ==
  [][\A p \in Procs :
       (PendingPost(p) /\ inflight'[p] # inflight[p]) =>
         LET r == inflight[p].req.resource
             before == Collection(r)
             after == CollectionOf(clients', projects', tasks', r)
         IN /\ \A o \in Resources \ {r} :
                 CollectionOf(clients', projects', tasks', o) = Collection(o)
            /\ nextId'.client >= nextId.client
            /\ nextId'.project >= nextId.project
            /\ nextId'.task >= nextId.task
            /\ Len(after) = Len(before) + 1
            /\ ~HasId(before, after[Len(after)].id)]_vars

\* C25: when the write of a PUT request for a stored task lands, the task it
\* names holds the merged fields and every other stored task is as it was.
PendingTaskPut(p) ==
  /\ inflight[p].pc = "handle"
  /\ inflight[p].req.op = "PUT"
  /\ inflight[p].req.resource = "tasks"
  /\ SomeId(inflight[p].appData.tasks, JsNumber(inflight[p].req.id))
C25_PutLeavesOtherEntities ==
  [][\A p \in Procs :
       (PendingTaskPut(p) /\ inflight'[p] # inflight[p]) =>
         LET id == JsNumber(inflight[p].req.id)
         IN /\ Len(tasks') = Len(tasks)
            /\ \A i \in 1..Len(tasks) :
                 IF tasks[i].id = id
                 THEN tasks'[i] = MergedTask(tasks[i], inflight[p].req.body[1])
                 ELSE tasks'[i] = tasks[i]]_vars

\* C26: once every request has completed, each stored project names a stored
\* client and each stored task names a stored project, although cascading
\* deletes were in flight with POST and PUT requests on projects and tasks.
NoOrphans ==
  /\ \A i \in 1..Len(projects) :
       \E j \in 1..Len(clients) : KeyIs(projects[i].clientId, clients[j].id)
  /\ \A i \in 1..Len(tasks) :
       \E j \in 1..Len(projects) : KeyIs(tasks[i].projectId, projects[j].id)
AllCompleted == \A p \in Procs : inflight[p].pc = "idle"
C26_CascadeLeavesNoOrphans == AllCompleted => NoOrphans

\* C27: a request that found no main_data document goes on to be served from
\* the seeded document: its insertOne step is followed by the second findOne,
\* and it is not answered 500, whatever other request seeded the store first.
C27_SeedingNeverFails ==
  [][\A p \in Procs :
       (inflight[p].pc = "seed" /\ inflight'[p] # inflight[p]) =>
         /\ inflight'[p].pc = "reread"
         /\ seeded'
         /\ res' = res]_vars

\* C29: with requests handled one after another and POST bodies without an id
\* field, no id counter ever decreases, a POST gives the created entity the
\* counter's value and moves the counter past it, and every stored id lies
\* below its counter; so the ids a resource assigns grow strictly and an id
\* is not assigned again after its entity was deleted.
BelowCounter(s, counter) ==
  \A i \in 1..Len(s) : s[i].id.k = "num" /\ s[i].id.n < counter
C29_IdsNeverReused ==
  [][/\ nextId'.client >= nextId.client
     /\ nextId'.project >= nextId.project
     /\ nextId'.task >= nextId.task
     /\ BelowCounter(clients', nextId'.client)
     /\ BelowCounter(projects', nextId'.project)
     /\ BelowCounter(tasks', nextId'.task)
     /\ (req'.op = "POST" /\ res'.status = 201) =>
          LET was == Counter(req'.resource)
              now == CASE req'.resource = "clients" -> nextId'.client
                       [] req'.resource = "projects" -> nextId'.project
                       [] req'.resource = "tasks" -> nextId'.task
          IN /\ res'.body[1].id = Num(was)
             /\ now = was + 1]_vars
\* A client is created after every client created before it was deleted.
C29_Witness ==
  /\ req.op = "POST" /\ req.resource = "clients" /\ res.status = 201
  /\ Len(clients) = 1
  /\ clients[1].id = Num(2)
  /\ nextId.client = 3

\* C30: the rendered upcoming list holds at most 5 items, each a project or a
\* task whose date passes the dashboard's filter, none twice, in ascending
\* order of date; a project or task that passes the filter and is not listed
\* has 5 listed items before it, none dated later than it.
Qualifying ==
  {[type |-> "Project", id |-> ui.projects[i].id, date |-> ui.projects[i].deadline] :
     i \in {j \in 1..Len(ui.projects) : InWindow(ui.projects[j].deadline, dash.today.n)}}
  \cup
  {[type |-> "Task", id |-> ui.tasks[i].id, date |-> ui.tasks[i].dueDate] :
     i \in {j \in 1..Len(ui.tasks) : InWindow(ui.tasks[j].dueDate, dash.today.n)}}
UpcomingShown == {dash.upcomingDeadlines[i] : i \in 1..Len(dash.upcomingDeadlines)}
C30_UpcomingIsFirstFiveByDate ==
  dash.today # Undef =>
    LET shown == dash.upcomingDeadlines IN
    /\ Len(shown) <= 5
    /\ UpcomingShown \subseteq Qualifying
    /\ Cardinality(UpcomingShown) = Len(shown)
    /\ \A i, j \in 1..Len(shown) :
         i < j => GetTime(shown[i].date).n <= GetTime(shown[j].date).n
    /\ \A item \in Qualifying \ UpcomingShown :
         /\ Len(shown) = 5
         /\ \A i \in 1..Len(shown) :
              GetTime(shown[i].date).n <= GetTime(item.date).n
\* Six entities pass the filter; the one left out is a project added before
\* tasks that are listed ahead of the projects.
C30_Witness ==
  /\ dash.today # Undef
  /\ Cardinality(Qualifying) = 6
  /\ Len(dash.upcomingDeadlines) = 5
  /\ dash.upcomingDeadlines[1].type = "Task"
  /\ dash.upcomingDeadlines[5].type = "Project"
  /\ \E item \in Qualifying \ UpcomingShown : item.type = "Project"

====
